---- MODULE Spec2Model ----
(***************************************************************************)
(* CFO Helper: the usage/scenario/report server (a Hono app over a         *)
(* key-value store) and the React client that computes the financial       *)
(* metrics and keeps the usage counters.                                   *)
(***************************************************************************)
EXTENDS Integers, Sequences, FiniteSets, TLC

(***************************************************************************)
(* Bounds of the model.                                                    *)
(***************************************************************************)
\* number of HTTP requests the server receives in one behaviour
MaxRequests == 2
\* last value of the millisecond clock
MaxClock == 1
\* number of store operations that may throw in one behaviour
MaxFaults == 1
\* largest counter value carried by a POST /usage body
MaxCount == 2

Requests == 1..MaxRequests

VARIABLES
    kv,         \* the key-value table: key -> stored value
    now,        \* the server clock, Date.now()
    req,        \* request -> the handler's position, locals and response
    faults      \* store operations that have thrown so far

VARIABLES
    employees,          \* slider state, employees[0] in the source
    marketingBudget,    \* slider state
    productPrice,       \* slider state
    currentCash,        \* slider state
    baseCustomerCount,
    fixedMonthlyCosts,
    scenariosAnalyzed,
    reportsGenerated,
    isUpdatingData,
    isGeneratingReport,
    lastDataUpdate,
    marketClosure,      \* the render a pending handleUpdateMarketData closed over
    reportClosure,      \* the render a pending handleGenerateReport closed over
    loading,            \* the mount-time loadUsageData fetch is in flight
    saves,              \* saveUsageData fetches in flight
    localStorage        \* the browser's localStorage

serverVars == <<kv, now, req, faults>>

paramVars ==
    <<employees, marketingBudget, productPrice, currentCash,
      baseCustomerCount, fixedMonthlyCosts>>

usageVars ==
    <<scenariosAnalyzed, reportsGenerated, loading, saves, localStorage>>

asyncVars ==
    <<isUpdatingData, isGeneratingReport, lastDataUpdate, marketClosure,
      reportClosure>>

clientVars == <<paramVars, usageVars, asyncVars>>

vars == <<serverVars, clientVars>>

(***************************************************************************)
(* Values.                                                                 *)
(***************************************************************************)
Max(a, b) == IF a >= b THEN a ELSE b

\* a JSON number that need not be an integer, kept as <<numerator, denominator>>
Rat(n, d) == <<n, d>>
RatLess(a, b) == a[1] * b[2] < b[1] * a[2]

\* new Date().toISOString() of the instant t, and new Date(s).getTime()
ToISOString(t) == <<"ISO-8601", t>>
GetTime(s) == s[2]

\* {...a, ...b}: the fields of b override those of a
Spread(a, b) ==
    [k \in DOMAIN a \cup DOMAIN b |-> IF k \in DOMAIN b THEN b[k] ELSE a[k]]

(***************************************************************************)
(* The key-value store.                                                    *)
(***************************************************************************)
UsageKey == <<"cfo-helper-usage", 0>>
ScenarioPrefix == "scenario-"
ReportPrefix == "report-"

NoValue == [absent |-> TRUE]

KvHas(store, key) == key \in DOMAIN store

KvGet(store, key) == IF KvHas(store, key) THEN store[key] ELSE NoValue

KvSet(store, key, value) ==
    [k \in DOMAIN store \cup {key} |-> IF k = key THEN value ELSE store[k]]

KeysWithPrefix(store, prefix) == {k \in DOMAIN store : k[1] = prefix}

EmptyStore == [k \in {} |-> NoValue]

\* the keys of S as a sequence, ascending by the instant in the key
RECURSIVE KeysAscending(_)
KeysAscending(S) ==
    IF S = {} THEN <<>>
    ELSE LET first == CHOOSE k \in S : \A j \in S : k[2] <= j[2]
         IN  <<first>> \o KeysAscending(S \ {first})

\* getByPrefix: the values under the keys that start with prefix. The store
\* does not specify their order: the rows come ascending or descending
\* (reversed) by key, starting at any row (rotation).
KvGetByPrefix(store, prefix, reversed, rotation) ==
    LET asc == KeysAscending(KeysWithPrefix(store, prefix))
        n == Len(asc)
        base == IF reversed THEN [i \in 1..n |-> asc[n + 1 - i]] ELSE asc
    IN  [i \in 1..n |-> store[base[((i - 1 + rotation) % n) + 1]]]

(***************************************************************************)
(* Server: helpers of the request handlers.                                *)
(***************************************************************************)
\* the ids the POST handlers derive from Date.now()
ScenarioId(t) == <<ScenarioPrefix, t>>
ReportId(t) == <<ReportPrefix, t>>

DefaultUsage == [scenarios |-> 0, reports |-> 0]

\* await kv.get("cfo-helper-usage") || { scenarios: 0, reports: 0 }
UsageOrDefault(store) ==
    LET usageData == KvGet(store, UsageKey)
    IN  IF usageData = NoValue THEN DefaultUsage ELSE usageData

IncrementScenariosTwice(usageData) == [usageData EXCEPT !.scenarios = @ + 2]

IncrementScenariosNot(usageData) == usageData

\* usageData.scenarios += 1
IncrementScenarios(usageData) == [usageData EXCEPT !.scenarios = @ + 1]

IncrementReportsAsScenarios(usageData) ==
    [usageData EXCEPT !.scenarios = @ + 1]

\* usageData.reports += 1
IncrementReports(usageData) == [usageData EXCEPT !.reports = @ + 1]

CompareScenariosAscending(a, b) ==
    GetTime(a.timestamp) - GetTime(b.timestamp)

\* the comparator of GET /scenarios: positive when b is the newer record
CompareScenarios(a, b) == GetTime(b.timestamp) - GetTime(a.timestamp)

\* x put into the sorted sequence s behind every element that does not sort
\* after it (Array.prototype.sort is stable)
InsertSorted(s, x) ==
    LET after == {i \in 1..Len(s) : CompareScenarios(s[i], x) > 0}
        pos == IF after = {} THEN Len(s) + 1
               ELSE CHOOSE i \in after : \A j \in after : i <= j
    IN  SubSeq(s, 1, pos - 1) \o <<x>> \o SubSeq(s, pos, Len(s))

RECURSIVE SortScenarios(_)
SortScenarios(s) ==
    IF s = <<>> THEN <<>>
    ELSE InsertSorted(SortScenarios(SubSeq(s, 1, Len(s) - 1)), s[Len(s)])

\* .slice(0, n)
Slice(s, n) == SubSeq(s, 1, IF Len(s) < n THEN Len(s) ELSE n)

RecentLimit == 10

\* scenarios.sort(...).slice(0, 10)
sortedScenarios(scenarios) == Slice(SortScenarios(scenarios), RecentLimit)

CashFlowInsight(metrics) ==
    IF metrics.monthlyRevenue > metrics.totalMonthlyBurn
    THEN <<[category |-> "Cash Flow", type |-> "positive"]>>
    ELSE <<[category |-> "Cash Flow", type |-> "warning"]>>

RunwayInsightInclusive(metrics) ==
    IF ~RatLess(Rat(6, 1), metrics.runwayMonths)
    THEN <<[category |-> "Runway", type |-> "critical"]>>
    ELSE IF RatLess(Rat(18, 1), metrics.runwayMonths)
         THEN <<[category |-> "Runway", type |-> "opportunity"]>>
         ELSE <<>>

RunwayInsight(metrics) ==
    IF RatLess(metrics.runwayMonths, Rat(6, 1))
    THEN <<[category |-> "Runway", type |-> "critical"]>>
    ELSE IF RatLess(Rat(18, 1), metrics.runwayMonths)
         THEN <<[category |-> "Runway", type |-> "opportunity"]>>
         ELSE <<>>

PricingInsight(metrics) ==
    IF metrics.productPrice < 200
    THEN <<[category |-> "Pricing", type |-> "opportunity"]>>
    ELSE <<>>

generateAIInsights(data) ==
    CashFlowInsight(data.metrics) \o RunwayInsight(data.metrics)
        \o PricingInsight(data.metrics)

ProjectionMonths == 12

RunningBalanceClamped(start, flow, m) ==
    LET cashBalance[k \in 0..m] ==
            IF k = 0 THEN start ELSE Max(0, cashBalance[k - 1] + flow)
    IN  cashBalance[m]

\* the running cashBalance after the loop body of month m, not clamped
RunningBalance(start, flow, m) ==
    LET cashBalance[k \in 0..m] ==
            IF k = 0 THEN start ELSE cashBalance[k - 1] + flow
    IN  cashBalance[m]

generateProjections(data) ==
    LET metrics == data.metrics
        flow == metrics.monthlyRevenue - metrics.totalMonthlyBurn
    IN  [month \in 1..ProjectionMonths |->
            [month |-> month,
             cashBalance |->
                Max(0, RunningBalance(metrics.currentCash, flow, month)),
             revenue |-> metrics.monthlyRevenue,
             expenses |-> metrics.totalMonthlyBurn,
             netFlow |-> metrics.monthlyRevenue - metrics.totalMonthlyBurn]]

\* the record POST /generate-report stores and returns
EnhancedReport(reportData, reportId, t) ==
    Spread(reportData,
           [id |-> reportId,
            timestamp |-> ToISOString(t),
            aiInsights |-> generateAIInsights(reportData),
            projections |-> generateProjections(reportData)])

(***************************************************************************)
(* Server: the request handlers. A handler runs from one await of the      *)
(* store to the next in one step; a store operation either takes effect or *)
(* throws, and the handler's catch block then answers 500.                 *)
(***************************************************************************)
NoRequest ==
    [kind |-> "none", pc |-> "idle", body |-> NoValue, id |-> NoValue,
     record |-> NoValue, usageData |-> NoValue, status |-> 0,
     response |-> NoValue]

Received(r, kind, pc, body, id, record) ==
    req' = [req EXCEPT ![r] =
                [kind |-> kind, pc |-> pc, body |-> body, id |-> id,
                 record |-> record, usageData |-> NoValue, status |-> 0,
                 response |-> NoValue]]

Respond(r, status, response) ==
    req' = [req EXCEPT ![r].pc = "done", ![r].status = status,
                       ![r].response = response]

At(r, kind, pc) == req[r].kind = kind /\ req[r].pc = pc

StoreThrowsWithoutStatus(r, response) ==
    /\ faults < MaxFaults
    /\ faults' = faults + 1
    /\ Respond(r, 200, response)
    /\ UNCHANGED <<kv, now, clientVars>>

\* a store operation of request r throws: the catch block of its handler
StoreThrows(r, response) ==
    /\ faults < MaxFaults
    /\ faults' = faults + 1
    /\ Respond(r, 500, response)
    /\ UNCHANGED <<kv, now, clientVars>>

\* the clock moves on between two requests
Tick ==
    /\ now < MaxClock
    /\ now' = now + 1
    /\ UNCHANGED <<kv, req, faults, clientVars>>

\* GET /usage: the handler does nothing before its one store read
GetUsage(r) ==
    /\ req[r].pc = "idle"
    /\ req' = [req EXCEPT ![r] =
                [NoRequest EXCEPT !.kind = "GET /usage", !.pc = "done",
                                  !.status = 200,
                                  !.response = UsageOrDefault(kv)]]
    /\ UNCHANGED <<kv, now, faults, clientVars>>

GetUsageCatch(r) ==
    /\ req[r].pc = "idle"
    /\ faults < MaxFaults
    /\ faults' = faults + 1
    /\ req' = [req EXCEPT ![r] =
                [NoRequest EXCEPT !.kind = "GET /usage", !.pc = "done",
                                  !.status = 500, !.response = DefaultUsage]]
    /\ UNCHANGED <<kv, now, clientVars>>

\* POST /usage
BeginPostUsage(r, body) ==
    /\ req[r].pc = "idle"
    /\ Received(r, "POST /usage", "set_usage", body, NoValue,
                [scenarios |-> body.scenarios, reports |-> body.reports,
                 lastUpdated |-> ToISOString(now)])
    /\ UNCHANGED <<kv, now, faults, clientVars>>

PostUsageSetEchoRecord(r) ==
    /\ At(r, "POST /usage", "set_usage")
    /\ kv' = KvSet(kv, UsageKey, req[r].record)
    /\ Respond(r, 200, Spread([success |-> TRUE], req[r].record))
    /\ UNCHANGED <<now, faults, clientVars>>

PostUsageSet(r) ==
    /\ At(r, "POST /usage", "set_usage")
    /\ kv' = KvSet(kv, UsageKey, req[r].record)
    /\ Respond(r, 200,
               [success |-> TRUE, scenarios |-> req[r].body.scenarios,
                reports |-> req[r].body.reports])
    /\ UNCHANGED <<now, faults, clientVars>>

PostUsageCatch(r) ==
    /\ At(r, "POST /usage", "set_usage")
    /\ StoreThrows(r, [error |-> "Failed to save usage data"])

\* POST /scenario; the clock may move on between Date.now() and new Date()
BeginPostScenario(r, scenarioData, t) ==
    /\ req[r].pc = "idle"
    /\ t \in {now, now + 1} /\ t <= MaxClock
    /\ now' = t
    /\ Received(r, "POST /scenario", "set_record", scenarioData,
                ScenarioId(now),
                Spread(scenarioData, [timestamp |-> ToISOString(t)]))
    /\ UNCHANGED <<kv, faults, clientVars>>

PostScenarioSet(r) ==
    /\ At(r, "POST /scenario", "set_record")
    /\ kv' = KvSet(kv, req[r].id, req[r].record)
    /\ req' = [req EXCEPT ![r].pc = "get_usage"]
    /\ UNCHANGED <<now, faults, clientVars>>

PostScenarioGetUsage(r) ==
    /\ At(r, "POST /scenario", "get_usage")
    /\ req' = [req EXCEPT ![r].pc = "set_usage",
                          ![r].usageData = IncrementScenarios(UsageOrDefault(kv))]
    /\ UNCHANGED <<kv, now, faults, clientVars>>

PostScenarioSetUsage(r) ==
    /\ At(r, "POST /scenario", "set_usage")
    /\ kv' = KvSet(kv, UsageKey, req[r].usageData)
    /\ Respond(r, 200, [success |-> TRUE, scenarioId |-> req[r].id])
    /\ UNCHANGED <<now, faults, clientVars>>

PostScenarioCatch(r) ==
    /\ req[r].kind = "POST /scenario"
    /\ req[r].pc \in {"set_record", "get_usage", "set_usage"}
    /\ StoreThrows(r, [error |-> "Failed to save scenario"])

\* GET /scenarios: the handler does nothing before its one store read
GetScenarios(r, reversed, rotation) ==
    /\ req[r].pc = "idle"
    /\ rotation < Max(1, Cardinality(KeysWithPrefix(kv, ScenarioPrefix)))
    /\ req' = [req EXCEPT ![r] =
                [NoRequest EXCEPT
                    !.kind = "GET /scenarios", !.pc = "done", !.status = 200,
                    !.response =
                        [scenarios |->
                            sortedScenarios(
                                KvGetByPrefix(kv, ScenarioPrefix, reversed,
                                              rotation))]]]
    /\ UNCHANGED <<kv, now, faults, clientVars>>

GetScenariosCatch(r) ==
    /\ req[r].pc = "idle"
    /\ faults < MaxFaults
    /\ faults' = faults + 1
    /\ req' = [req EXCEPT ![r] =
                [NoRequest EXCEPT !.kind = "GET /scenarios", !.pc = "done",
                                  !.status = 500,
                                  !.response = [scenarios |-> <<>>]]]
    /\ UNCHANGED <<kv, now, clientVars>>

\* POST /generate-report; a body without metrics makes generateAIInsights throw
BeginGenerateReport(r, reportData, t) ==
    /\ req[r].pc = "idle"
    /\ t \in {now, now + 1} /\ t <= MaxClock
    /\ now' = t
    /\ IF "metrics" \in DOMAIN reportData
       THEN Received(r, "POST /generate-report", "set_record", reportData,
                     ReportId(now), EnhancedReport(reportData, ReportId(now), t))
       ELSE req' = [req EXCEPT ![r] =
                        [kind |-> "POST /generate-report", pc |-> "done",
                         body |-> reportData, id |-> ReportId(now),
                         record |-> NoValue, usageData |-> NoValue,
                         status |-> 500,
                         response |-> [error |-> "Failed to generate report"]]]
    /\ UNCHANGED <<kv, faults, clientVars>>

GenerateReportSetUsageKey(r) ==
    /\ At(r, "POST /generate-report", "set_record")
    /\ kv' = KvSet(kv, UsageKey, req[r].record)
    /\ req' = [req EXCEPT ![r].pc = "get_usage"]
    /\ UNCHANGED <<now, faults, clientVars>>

GenerateReportSet(r) ==
    /\ At(r, "POST /generate-report", "set_record")
    /\ kv' = KvSet(kv, req[r].id, req[r].record)
    /\ req' = [req EXCEPT ![r].pc = "get_usage"]
    /\ UNCHANGED <<now, faults, clientVars>>

GenerateReportGetUsage(r) ==
    /\ At(r, "POST /generate-report", "get_usage")
    /\ req' = [req EXCEPT ![r].pc = "set_usage",
                          ![r].usageData = IncrementReports(UsageOrDefault(kv))]
    /\ UNCHANGED <<kv, now, faults, clientVars>>

GenerateReportSetUsage(r) ==
    /\ At(r, "POST /generate-report", "set_usage")
    /\ kv' = KvSet(kv, UsageKey, req[r].usageData)
    /\ Respond(r, 200,
               [success |-> TRUE, reportId |-> req[r].id,
                report |-> req[r].record])
    /\ UNCHANGED <<now, faults, clientVars>>

GenerateReportCatch(r) ==
    /\ req[r].kind = "POST /generate-report"
    /\ req[r].pc \in {"set_record", "get_usage", "set_usage"}
    /\ StoreThrows(r, [error |-> "Failed to generate report"])

\* the request body of a POST is not JSON
NotJson == [notJson |-> TRUE]

PostKinds == {"POST /usage", "POST /scenario", "POST /generate-report"}

\* the body of the catch block's response, by endpoint
CatchResponse(kind) ==
    CASE kind = "GET /usage" -> DefaultUsage
      [] kind = "GET /scenarios" -> [scenarios |-> <<>>]
      [] kind = "POST /usage" -> [error |-> "Failed to save usage data"]
      [] kind = "POST /scenario" -> [error |-> "Failed to save scenario"]
      [] kind = "POST /generate-report" ->
            [error |-> "Failed to generate report"]

\* await c.req.json() throws in a POST handler: its catch block answers
RequestJsonThrows(r, kind) ==
    /\ req[r].pc = "idle"
    /\ kind \in PostKinds
    /\ req' = [req EXCEPT ![r] =
                [NoRequest EXCEPT !.kind = kind, !.pc = "done",
                                  !.body = NotJson, !.status = 500,
                                  !.response = CatchResponse(kind)]]
    /\ UNCHANGED <<kv, now, faults, clientVars>>

(***************************************************************************)
(* Client: the derived metrics, recomputed on every render.                *)
(***************************************************************************)
MathFloor(a, b) ==
    IF b > 0 THEN a \div b ELSE (-a) \div (-b)

\* Math.ceil(a / b) for b # 0
MathCeil(a, b) ==
    IF b > 0 THEN -((-a) \div b) ELSE -(a \div (-b))

monthlySalaryCostTypo == employees * 6000

monthlySalaryCost == employees * 60000

totalMonthlyBurn == monthlySalaryCost + marketingBudget + fixedMonthlyCosts

monthlyRevenue == baseCustomerCount * productPrice

netCashFlow == monthlyRevenue - totalMonthlyBurn

runwayMonthsAtZero ==
    IF totalMonthlyBurn >= 0 THEN Rat(currentCash, totalMonthlyBurn)
    ELSE Rat(999, 1)

runwayMonths ==
    IF totalMonthlyBurn > 0 THEN Rat(currentCash, totalMonthlyBurn)
    ELSE Rat(999, 1)

breakEvenCustomers == MathCeil(totalMonthlyBurn, productPrice)

getRunwayStatus(months) ==
    IF RatLess(Rat(12, 1), months) THEN "Healthy"
    ELSE IF ~RatLess(months, Rat(6, 1)) THEN "Cautious"
         ELSE "Critical"

getAIRecommendations ==
    (IF RatLess(runwayMonths, Rat(3, 1))
        THEN <<[type |-> "critical", title |-> "Critical Cash Situation"]>>
        ELSE <<>>)
    \o (IF netCashFlow >= 0
        THEN <<[type |-> "positive", title |-> "Profitable Operations"]>>
        ELSE <<>>)
    \o (IF employees > 10 /\ RatLess(runwayMonths, Rat(6, 1))
        THEN <<[type |-> "warning", title |-> "High Burn from Team Size"]>>
        ELSE <<>>)
    \o (IF productPrice < 100 /\ breakEvenCustomers > 500
        THEN <<[type |-> "opportunity", title |-> "Pricing Opportunity"]>>
        ELSE <<>>)

\* the STATUS line of the downloaded report
ReportStatus == IF netCashFlow >= 0 THEN "PROFITABLE" ELSE "BURNING CASH"

generateProjectionData ==
    LET cashBalance[k \in 0..ProjectionMonths] ==
            IF k = 0 THEN currentCash ELSE cashBalance[k - 1] + netCashFlow
    IN  [month \in 1..ProjectionMonths |->
            [month |-> <<"Month", month>>,
             cash |-> Max(0, cashBalance[month]),
             revenue |-> monthlyRevenue,
             expenses |-> totalMonthlyBurn,
             netFlow |-> netCashFlow]]

(***************************************************************************)
(* Initial states.                                                         *)
(***************************************************************************)
NoDate == "null"

EmptyStorage == [k \in {} |-> NoValue]

\* the table is empty, or holds a usage record that counts nothing yet
InitServer ==
    /\ kv \in {EmptyStore,
               KvSet(EmptyStore, UsageKey,
                     [scenarios |-> 0, reports |-> 0,
                      lastUpdated |-> ToISOString(0)])}
    /\ now = 0
    /\ req = [r \in Requests |-> NoRequest]
    /\ faults = 0

\* the useState initial values of the parameters
InitParameters ==
    /\ employees = 5
    /\ marketingBudget = 30000
    /\ productPrice = 150
    /\ currentCash = 800000
    /\ baseCustomerCount = 100
    /\ fixedMonthlyCosts = 20000

\* the other useState initial values; the mount effect has called
\* loadUsageData
InitUsage ==
    /\ scenariosAnalyzed = 0
    /\ reportsGenerated = 0
    /\ isUpdatingData = FALSE
    /\ lastDataUpdate = NoDate
    /\ isGeneratingReport = FALSE
    /\ marketClosure = NoValue
    /\ reportClosure = NoValue
    /\ loading = TRUE
    /\ saves = {}
    /\ localStorage = EmptyStorage

InitClient == InitParameters /\ InitUsage

Init == InitServer /\ InitClient

(***************************************************************************)
(* The server under any interleaving of requests.                          *)
(***************************************************************************)
UsageBodies == [scenarios : {0, MaxCount}, reports : {0, MaxCount}]

ScenarioBodies ==
    {[employees |-> 5, productPrice |-> 150],
     [employees |-> 6, productPrice |-> 150, timestamp |-> ToISOString(0)]}

Metrics(burn, revenue, runway, emp, price, cash) ==
    [totalMonthlyBurn |-> burn, monthlyRevenue |-> revenue,
     runwayMonths |-> runway, employees |-> emp, productPrice |-> price,
     currentCash |-> cash]

ReportBodies ==
    {[metrics |-> Metrics(350000, 15000, Rat(800000, 350000), 5, 150, 800000)],
     [parameters |-> [employees |-> 5]]}

\* requests are numbered in the order the server receives them
Arrives(r) == req[r].pc = "idle" /\ \A q \in 1..(r - 1) : req[q].pc # "idle"

Next ==
    \/ Tick
    \/ \E r \in Requests :
        \/ Arrives(r) /\ GetUsage(r)
        \/ Arrives(r) /\ GetUsageCatch(r)
        \/ \E body \in UsageBodies : Arrives(r) /\ BeginPostUsage(r, body)
        \/ PostUsageSet(r)
        \/ PostUsageCatch(r)
        \/ \E body \in ScenarioBodies, t \in 0..MaxClock :
                Arrives(r) /\ BeginPostScenario(r, body, t)
        \/ PostScenarioSet(r)
        \/ PostScenarioGetUsage(r)
        \/ PostScenarioSetUsage(r)
        \/ PostScenarioCatch(r)
        \/ \E reversed \in BOOLEAN, rotation \in 0..MaxRequests :
                Arrives(r) /\ GetScenarios(r, reversed, rotation)
        \/ Arrives(r) /\ GetScenariosCatch(r)
        \/ \E body \in ReportBodies, t \in 0..MaxClock :
                Arrives(r) /\ BeginGenerateReport(r, body, t)
        \/ GenerateReportSet(r)
        \/ GenerateReportGetUsage(r)
        \/ GenerateReportSetUsage(r)
        \/ GenerateReportCatch(r)
        \/ \E kind \in PostKinds : Arrives(r) /\ RequestJsonThrows(r, kind)

Spec == Init /\ [][Next]_vars

(***************************************************************************)
(* The server when every request starts after the one before it has been   *)
(* answered, and nobody posts to /usage.                                   *)
(***************************************************************************)
\* no handler is between its first step and its response
Quiet == \A r \in Requests : req[r].pc \in {"idle", "done"}

Succeeded(kind) ==
    {r \in Requests : req[r].kind = kind /\ req[r].status = 200}

NextSerial ==
    \/ Tick
    \/ \E r \in Requests :
        \/ Quiet /\ Arrives(r) /\ GetUsage(r)
        \/ \E body \in ScenarioBodies, t \in 0..MaxClock :
                Quiet /\ Arrives(r) /\ BeginPostScenario(r, body, t)
        \/ PostScenarioSet(r)
        \/ PostScenarioGetUsage(r)
        \/ PostScenarioSetUsage(r)
        \/ PostScenarioCatch(r)
        \/ \E body \in ReportBodies, t \in 0..MaxClock :
                Quiet /\ Arrives(r) /\ BeginGenerateReport(r, body, t)
        \/ GenerateReportSet(r)
        \/ GenerateReportGetUsage(r)
        \/ GenerateReportSetUsage(r)
        \/ GenerateReportCatch(r)

SpecSerial == Init /\ [][NextSerial]_vars

\* C1: when the requests run one after the other, the stored scenarios
\* counter equals the number of POST /scenario requests answered with
\* success so far (n successful requests raise it from 0 by exactly n).
C1_SerializedIncrements ==
    UsageOrDefault(kv).scenarios = Cardinality(Succeeded("POST /scenario"))

\* C1 witness: two POST /scenario requests, one after the other, have both
\* succeeded and the counter is 2.
C1_TwoSerializedPosts ==
    /\ Cardinality(Succeeded("POST /scenario")) = 2
    /\ UsageOrDefault(kv).scenarios = 2

(***************************************************************************)
(* The two read-increment-write endpoints under any interleaving.          *)
(***************************************************************************)
NextOverlap ==
    \/ Tick
    \/ \E r \in Requests :
        \/ \E body \in ScenarioBodies, t \in 0..MaxClock :
                Arrives(r) /\ BeginPostScenario(r, body, t)
        \/ PostScenarioSet(r)
        \/ PostScenarioGetUsage(r)
        \/ PostScenarioSetUsage(r)
        \/ PostScenarioCatch(r)
        \/ \E body \in ReportBodies, t \in 0..MaxClock :
                Arrives(r) /\ BeginGenerateReport(r, body, t)
        \/ GenerateReportSet(r)
        \/ GenerateReportGetUsage(r)
        \/ GenerateReportSetUsage(r)
        \/ GenerateReportCatch(r)

SpecOverlap == Init /\ [][NextOverlap]_vars

\* exactly two requests were received, both of this kind, and both succeeded
OnlyTwo(kind) ==
    /\ Cardinality({r \in Requests : req[r].pc # "idle"}) = 2
    /\ Cardinality(Succeeded(kind)) = 2

\* C2: after two POST /scenario requests (or two POST /generate-report
\* requests) that may overlap have both completed, with the counter at 0
\* before them, the counter they increment is 1 or 2, never 0 or more than 2.
C2_OverlapOneOrTwo ==
    /\ OnlyTwo("POST /scenario") => UsageOrDefault(kv).scenarios \in {1, 2}
    /\ OnlyTwo("POST /generate-report") => UsageOrDefault(kv).reports \in {1, 2}

\* C2 witness: both POST /scenario requests succeeded and one increment was
\* lost.
C2_LostUpdate ==
    OnlyTwo("POST /scenario") /\ UsageOrDefault(kv).scenarios = 1

(***************************************************************************)
(* Claims about the usage record and the record keys, under Spec.          *)
(***************************************************************************)
\* C3: neither field of the stored usage record ever takes a value lower
\* than one it held before.
C3_NeverDecremented ==
    [][/\ (UsageOrDefault(kv).scenarios)' >= UsageOrDefault(kv).scenarios
       /\ (UsageOrDefault(kv).reports)' >= UsageOrDefault(kv).reports]_vars

\* C4: once no request is in flight, the stored counters equal the numbers
\* of snapshots and reports the POST endpoints created with success.
C4_CountersReflectCreated ==
    Quiet =>
        /\ UsageOrDefault(kv).scenarios
                = Cardinality(Succeeded("POST /scenario"))
        /\ UsageOrDefault(kv).reports
                = Cardinality(Succeeded("POST /generate-report"))

\* C5: two distinct successful POST /scenario requests get different
\* scenarioIds, and two distinct successful POST /generate-report requests
\* get different reportIds.
C5_UniqueIds ==
    \A kind \in {"POST /scenario", "POST /generate-report"} :
        \A r1, r2 \in Succeeded(kind) : r1 # r2 => req[r1].id # req[r2].id

(***************************************************************************)
(* Client: the event handlers. A fetch is in flight from the call until it *)
(* resolves (with any HTTP status) or throws (no connection).              *)
(***************************************************************************)
\* n.toString() and parseInt(s)
NumberToString(n) == <<"digits", n>>
ParseInt(s) == s[2]

SetItem(storage, key, value) ==
    [k \in DOMAIN storage \cup {key} |-> IF k = key THEN value ELSE storage[k]]

\* saveUsageData up to its await: the POST /usage fetch is sent
saveUsageData(scenarios, reports) ==
    saves' = saves \cup {[scenarios |-> scenarios, reports |-> reports]}

\* the fetch of saveUsageData resolves; the response is not looked at
SaveUsageDataResolves(body) ==
    /\ body \in saves
    /\ saves' = saves \ {body}
    /\ UNCHANGED <<scenariosAnalyzed, reportsGenerated, loading, localStorage>>
    /\ UNCHANGED <<serverVars, paramVars, asyncVars>>

\* the fetch of saveUsageData throws: the catch block writes localStorage
SaveUsageDataThrows(body) ==
    /\ body \in saves
    /\ saves' = saves \ {body}
    /\ localStorage' =
            SetItem(SetItem(localStorage, "cfh-scenarios",
                            NumberToString(body.scenarios)),
                    "cfh-reports", NumberToString(body.reports))
    /\ UNCHANGED <<scenariosAnalyzed, reportsGenerated, loading>>
    /\ UNCHANGED <<serverVars, paramVars, asyncVars>>

\* the fetch of loadUsageData resolves with response.ok and the body data
LoadUsageDataOk(data) ==
    /\ loading
    /\ loading' = FALSE
    /\ scenariosAnalyzed' = data.scenarios
    /\ reportsGenerated' = data.reports
    /\ UNCHANGED <<saves, localStorage>>
    /\ UNCHANGED <<serverVars, paramVars, asyncVars>>

\* the fetch of loadUsageData resolves with an error status
LoadUsageDataNotOk ==
    /\ loading
    /\ loading' = FALSE
    /\ UNCHANGED <<scenariosAnalyzed, reportsGenerated, saves, localStorage>>
    /\ UNCHANGED <<serverVars, paramVars, asyncVars>>

\* the fetch of loadUsageData throws: the catch block reads localStorage
LoadUsageDataThrows ==
    /\ loading
    /\ loading' = FALSE
    /\ scenariosAnalyzed' =
            IF "cfh-scenarios" \in DOMAIN localStorage
            THEN ParseInt(localStorage["cfh-scenarios"])
            ELSE scenariosAnalyzed
    /\ reportsGenerated' =
            IF "cfh-reports" \in DOMAIN localStorage
            THEN ParseInt(localStorage["cfh-reports"])
            ELSE reportsGenerated
    /\ UNCHANGED <<saves, localStorage>>
    /\ UNCHANGED <<serverVars, paramVars, asyncVars>>

\* setter(value) of handleSliderChange
SetParameter(setter, value) ==
    /\ employees' = IF setter = "setEmployees" THEN value ELSE employees
    /\ marketingBudget' =
            IF setter = "setMarketingBudget" THEN value ELSE marketingBudget
    /\ productPrice' =
            IF setter = "setProductPrice" THEN value ELSE productPrice
    /\ currentCash' = IF setter = "setCurrentCash" THEN value ELSE currentCash

handleSliderChange(setter, value) ==
    /\ SetParameter(setter, value)
    /\ scenariosAnalyzed' = scenariosAnalyzed + 1
    /\ saveUsageData(scenariosAnalyzed + 1, reportsGenerated)
    /\ UNCHANGED <<reportsGenerated, loading, localStorage>>
    /\ UNCHANGED <<baseCustomerCount, fixedMonthlyCosts>>
    /\ UNCHANGED <<serverVars, asyncVars>>

\* handleUpdateMarketData up to its 2 s timer; the button is disabled while
\* isUpdatingData. What follows the timer uses the counters of this render.
handleUpdateMarketData ==
    /\ ~isUpdatingData
    /\ isUpdatingData' = TRUE
    /\ marketClosure' = [scenariosAnalyzed |-> scenariosAnalyzed,
                         reportsGenerated |-> reportsGenerated]
    /\ UNCHANGED <<isGeneratingReport, lastDataUpdate, reportClosure>>
    /\ UNCHANGED <<serverVars, paramVars, usageVars>>

\* handleUpdateMarketData after the timer, with the two Math.random() draws
MarketDataUpdated(newCustomerCount, newFixedCosts) ==
    /\ isUpdatingData
    /\ baseCustomerCount' = newCustomerCount
    /\ fixedMonthlyCosts' = newFixedCosts
    /\ lastDataUpdate' = "updated"
    /\ scenariosAnalyzed' = marketClosure.scenariosAnalyzed + 1
    /\ saveUsageData(marketClosure.scenariosAnalyzed + 1,
                     marketClosure.reportsGenerated)
    /\ isUpdatingData' = FALSE
    /\ marketClosure' = NoValue
    /\ UNCHANGED <<employees, marketingBudget, productPrice, currentCash>>
    /\ UNCHANGED <<reportsGenerated, loading, localStorage>>
    /\ UNCHANGED <<isGeneratingReport, reportClosure>>
    /\ UNCHANGED serverVars

\* handleGenerateReport up to its 3 s timer; the button is disabled while
\* isGeneratingReport
handleGenerateReport ==
    /\ ~isGeneratingReport
    /\ isGeneratingReport' = TRUE
    /\ reportClosure' = [scenariosAnalyzed |-> scenariosAnalyzed,
                         reportsGenerated |-> reportsGenerated]
    /\ UNCHANGED <<isUpdatingData, lastDataUpdate, marketClosure>>
    /\ UNCHANGED <<serverVars, paramVars, usageVars>>

\* handleGenerateReport after the timer: the file is downloaded and the
\* reports counter of the closed-over render is incremented
ReportDownloaded ==
    /\ isGeneratingReport
    /\ reportsGenerated' = reportClosure.reportsGenerated + 1
    /\ saveUsageData(reportClosure.scenariosAnalyzed,
                     reportClosure.reportsGenerated + 1)
    /\ isGeneratingReport' = FALSE
    /\ reportClosure' = NoValue
    /\ UNCHANGED <<scenariosAnalyzed, loading, localStorage>>
    /\ UNCHANGED <<isUpdatingData, lastDataUpdate, marketClosure>>
    /\ UNCHANGED <<serverVars, paramVars>>

(***************************************************************************)
(* The client's parameters: the user moves the sliders and updates the     *)
(* market data; the usage fetches stay in flight.                          *)
(***************************************************************************)
\* the value the client lets scenariosAnalyzed reach
MaxAnalyzed == 3

\* the slider ranges (min, initial value, max) and the Math.random() ranges
SliderValues ==
    [setEmployees |-> {1, 5, 50},
     setMarketingBudget |-> {0, 30000, 200000},
     setProductPrice |-> {10, 150, 1000},
     setCurrentCash |-> {100000, 800000, 10000000}]

\* values of Math.random(), in [0, 1): the least, the middle and one close
\* to 1
RandomDraws == {Rat(0, 1), Rat(1, 2), Rat(9999, 10000)}

newCustomerCountCeil(u) == -((-(80 * u[2] + 40 * u[1])) \div u[2])

\* Math.floor(80 + Math.random() * 40)
newCustomerCount(u) == (80 * u[2] + 40 * u[1]) \div u[2]

\* Math.floor(15000 + Math.random() * 10000)
newFixedCosts(u) == (15000 * u[2] + 10000 * u[1]) \div u[2]

CustomerCounts == {newCustomerCount(u) : u \in RandomDraws}
FixedCosts == {newFixedCosts(u) : u \in RandomDraws}

NextClient ==
    \/ \E setter \in DOMAIN SliderValues :
            \E value \in SliderValues[setter] :
                /\ scenariosAnalyzed < MaxAnalyzed
                /\ handleSliderChange(setter, value)
    \/ handleUpdateMarketData
    \/ \E c \in CustomerCounts, f \in FixedCosts :
            /\ isUpdatingData
            /\ marketClosure.scenariosAnalyzed < MaxAnalyzed
            /\ MarketDataUpdated(c, f)

SpecClient == Init /\ [][NextClient]_vars

\* C6: in every client state the burn is employees*60000 + marketingBudget
\* + fixedMonthlyCosts, the revenue is baseCustomerCount * productPrice and
\* the net cash flow is their difference; the initial parameters give burn
\* 350000, revenue 15000, net cash flow -335000 and break-even 2334.
C6_BurnRevenueExact ==
    /\ totalMonthlyBurn
            = employees * 60000 + marketingBudget + fixedMonthlyCosts
    /\ monthlyRevenue = baseCustomerCount * productPrice
    /\ netCashFlow = monthlyRevenue - totalMonthlyBurn
    /\ InitParameters =>
            /\ totalMonthlyBurn = 350000
            /\ monthlyRevenue = 15000
            /\ netCashFlow = -335000
            /\ breakEvenCustomers = 2334

\* C6 witness: after slider changes and a market data update every
\* parameter is at the top of its range, and the burn is their sum.
C6_AllParametersChanged ==
    /\ employees = 50 /\ marketingBudget = 200000 /\ fixedMonthlyCosts = 24999
    /\ baseCustomerCount = 119 /\ productPrice = 1000
    /\ scenariosAnalyzed > 0
    /\ totalMonthlyBurn = 3224999
    /\ monthlyRevenue = 119000

\* C8: breakEvenCustomers is the smallest integer n with
\* n * productPrice >= monthlyBurn, and it is never negative.
C8_BreakEvenIsCeiling ==
    /\ breakEvenCustomers * productPrice >= totalMonthlyBurn
    /\ (breakEvenCustomers - 1) * productPrice < totalMonthlyBurn
    /\ breakEvenCustomers >= 0

\* C8 witness: the burn is no multiple of the price, so the quotient is
\* rounded up.
C8_RoundedUp ==
    /\ fixedMonthlyCosts = 24999 /\ productPrice = 1000
    /\ totalMonthlyBurn % productPrice # 0
    /\ breakEvenCustomers = (totalMonthlyBurn \div productPrice) + 1

InitFormulas ==
    /\ InitServer
    /\ InitUsage
    /\ employees \in {0, 5, 50}
    /\ marketingBudget \in {0, 30000}
    /\ productPrice \in {10, 150}
    /\ currentCash \in {0, 800000}
    /\ baseCustomerCount \in {0, 100, 4000}
    /\ fixedMonthlyCosts \in {-20000, 0, 20000}

ReportInputs ==
    {[metrics |->
        Metrics(flows[1], flows[2],
                IF flows[1] > 0 THEN Rat(cash, flows[1]) ELSE Rat(999, 1),
                5, 150, cash)] :
        flows \in {<<350000, 15000>>, <<15000, 350000>>, <<0, 0>>},
        cash \in {-500000, 0, 800000}}
    \cup {[parameters |-> [employees |-> 5]]}

\* no request has been received yet
NoneYet == \A r \in Requests : req[r].pc = "idle"

NextFormulas ==
    \E r \in Requests :
        \/ \E body \in ReportInputs, t \in 0..MaxClock :
                NoneYet /\ Arrives(r) /\ BeginGenerateReport(r, body, t)
        \/ GenerateReportSet(r)
        \/ GenerateReportGetUsage(r)
        \/ GenerateReportSetUsage(r)
        \/ GenerateReportCatch(r)

SpecFormulas == InitFormulas /\ [][NextFormulas]_vars

\* C7: runwayMonths is the quotient currentCash / monthlyBurn (numerator
\* currentCash, denominator monthlyBurn) when monthlyBurn > 0 and the
\* sentinel 999 when monthlyBurn <= 0, and nothing else.
C7_RunwayOrSentinel ==
    /\ totalMonthlyBurn > 0 =>
            /\ runwayMonths[1] = currentCash
            /\ runwayMonths[2] = totalMonthlyBurn
    /\ totalMonthlyBurn <= 0 => runwayMonths = Rat(999, 1)

\* C7 witness: the burn is zero or negative and the runway is the sentinel.
C7_SentinelTaken ==
    /\ totalMonthlyBurn <= 0
    /\ currentCash = 800000
    /\ runwayMonths = Rat(999, 1)

\* entry m of a projection: the month, the clamped closed-form balance and
\* the constant flows
IsProjectionEntry(entry, m, cash, revenue, burn) ==
    /\ entry.cashBalance = Max(0, cash + m * (revenue - burn))
    /\ entry.revenue = revenue
    /\ entry.expenses = burn
    /\ entry.netFlow = revenue - burn

\* the requests for which generateProjections has returned
Projected ==
    {r \in Requests :
        /\ req[r].kind = "POST /generate-report"
        /\ "projections" \in DOMAIN req[r].record}

\* C9: the client's generateProjectionData and the server's
\* generateProjections return 12 entries, for the months 1..12 in order;
\* entry m holds max(0, currentCash + m * netCashFlow), the monthly revenue,
\* the monthly burn and their difference.
C9_TwelveMonthProjection ==
    /\ DOMAIN generateProjectionData = 1..12
    /\ \A m \in 1..12 :
            LET entry == generateProjectionData[m]
            IN  /\ entry.month = <<"Month", m>>
                /\ IsProjectionEntry(
                        [cashBalance |-> entry.cash, revenue |-> entry.revenue,
                         expenses |-> entry.expenses,
                         netFlow |-> entry.netFlow],
                        m, currentCash, monthlyRevenue, totalMonthlyBurn)
    /\ \A r \in Projected :
            LET metrics == req[r].body.metrics
                projections == req[r].record.projections
            IN  /\ DOMAIN projections = 1..12
                /\ \A m \in 1..12 :
                        /\ projections[m].month = m
                        /\ IsProjectionEntry(projections[m], m,
                                             metrics.currentCash,
                                             metrics.monthlyRevenue,
                                             metrics.totalMonthlyBurn)

\* C9 witness: a stored report whose balance is clamped to zero in month 1
\* and above zero again in month 2, while the client's own projection runs
\* out of cash in month 3.
C9_ClampedThenRecovered ==
    /\ \E k \in KeysWithPrefix(kv, ReportPrefix) :
            /\ kv[k].metrics.currentCash < 0
            /\ kv[k].projections[1].cashBalance = 0
            /\ kv[k].projections[2].cashBalance > 0
    /\ generateProjectionData[2].cash > 0
    /\ generateProjectionData[3].cash = 0

(***************************************************************************)
(* GET /scenarios over stores of up to MaxStored snapshots. The snapshots  *)
(* were posted at the instants 0, 1, ...; for those in late the clock had  *)
(* moved on by one when the timestamp was taken, so two snapshots can      *)
(* carry the same timestamp.                                               *)
(***************************************************************************)
MaxStored == 11

\* the store after POST /scenario requests at the instants 0..n-1
StoreOf(n, late) ==
    [k \in {UsageKey} \cup {ScenarioId(i) : i \in 0..(n - 1)} |->
        IF k = UsageKey THEN [scenarios |-> n, reports |-> 0]
        ELSE Spread([employees |-> k[2] + 1, productPrice |-> 150],
                    [timestamp |->
                        ToISOString(IF k[2] \in late THEN k[2] + 1 ELSE k[2])])]

InitList ==
    /\ InitClient
    /\ \E n \in 0..MaxStored :
          \E late \in SUBSET (0..(n - 1)) :
              /\ kv = IF n = 0 THEN EmptyStore ELSE StoreOf(n, late)
              /\ now = n
    /\ req = [r \in Requests |-> NoRequest]
    /\ faults = 0

NextList ==
    \E r \in Requests :
        \/ \E reversed \in BOOLEAN, rotation \in 0..MaxStored :
                NoneYet /\ Arrives(r) /\ GetScenarios(r, reversed, rotation)
        \/ NoneYet /\ Arrives(r) /\ GetScenariosCatch(r)

SpecList == InitList /\ [][NextList]_vars

StoredScenarios == {kv[k] : k \in KeysWithPrefix(kv, ScenarioPrefix)}

Listed(r) == req[r].response.scenarios

\* C10: GET /scenarios returns min(10, n) of the n stored scenario records,
\* each once, with timestamps non-increasing from first to last, and no
\* stored record left out is newer than a returned one, whatever order
\* getByPrefix yields.
C10_TenMostRecentNewestFirst ==
    \A r \in Succeeded("GET /scenarios") :
        LET n == Cardinality(StoredScenarios)
            listed == {Listed(r)[i] : i \in 1..Len(Listed(r))}
        IN  /\ Len(Listed(r)) = IF n < 10 THEN n ELSE 10
            /\ listed \subseteq StoredScenarios
            /\ Cardinality(listed) = Len(Listed(r))
            /\ \A i, j \in 1..Len(Listed(r)) :
                    i < j => GetTime(Listed(r)[i].timestamp)
                                >= GetTime(Listed(r)[j].timestamp)
            /\ \A out \in StoredScenarios \ listed :
                    \A in \in listed :
                        GetTime(out.timestamp) <= GetTime(in.timestamp)

\* C10 witness: more than 10 snapshots are stored, two of the returned ones
\* carry the same timestamp, and the response holds 10 of them.
C10_TruncatedWithTie ==
    \E r \in Succeeded("GET /scenarios") :
        /\ Cardinality(StoredScenarios) > 10
        /\ Len(Listed(r)) = 10
        /\ \E i \in 1..9 :
                GetTime(Listed(r)[i].timestamp)
                    = GetTime(Listed(r)[i + 1].timestamp)

(***************************************************************************)
(* The client's usage counters: the user acts while the fetches of         *)
(* loadUsageData and saveUsageData end in any way.                         *)
(***************************************************************************)
\* the value the client lets reportsGenerated reach
MaxGenerated == 1
\* saveUsageData fetches in flight at a time
MaxInFlight == 1

\* what GET /usage may answer
LoadedUsage == [scenarios : {0, 1}, reports : {0, 1}]

CanSend == Cardinality(saves) < MaxInFlight

NextUsage ==
    \/ \E value \in {5, 50} :
            /\ scenariosAnalyzed < MaxAnalyzed /\ CanSend
            /\ handleSliderChange("setEmployees", value)
    \/ handleUpdateMarketData
    \/ /\ isUpdatingData
       /\ marketClosure.scenariosAnalyzed < MaxAnalyzed /\ CanSend
       /\ MarketDataUpdated(100, 20000)
    \/ handleGenerateReport
    \/ /\ isGeneratingReport
       /\ reportClosure.reportsGenerated < MaxGenerated /\ CanSend
       /\ ReportDownloaded
    \/ \E body \in saves : SaveUsageDataResolves(body)
    \/ \E body \in saves : SaveUsageDataThrows(body)
    \/ \E data \in LoadedUsage : LoadUsageDataOk(data)
    \/ LoadUsageDataNotOk
    \/ LoadUsageDataThrows

SpecUsage == Init /\ [][NextUsage]_vars

(***************************************************************************)
(* Claims about one request handled alone, under SpecSerial.               *)
(***************************************************************************)
\* request r is answered with success in this step
Succeeds(r, kind) ==
    /\ req[r].kind = kind
    /\ req[r].status # 200
    /\ req'[r].status = 200

EnhancedFields == {"id", "timestamp", "aiInsights", "projections"}

\* C11: a POST /generate-report handled with no other request interleaved
\* and answered with success has stored, under the report id it generated,
\* the request body plus id, timestamp, aiInsights and 12 projections, has
\* raised usage.reports by exactly 1 and left usage.scenarios as it was, and
\* answers with the record it stored; until its last step the usage record
\* does not change.
C11_ReportStoredCountedReturned ==
    [][\A r \in Requests :
        /\ Succeeds(r, "POST /generate-report") =>
            LET id == req'[r].id
                body == req'[r].body
                stored == KvGet(kv', id)
            IN  /\ id[1] = ReportPrefix /\ id[2] \in 0..now'
                /\ DOMAIN stored = DOMAIN body \cup EnhancedFields
                /\ \A k \in DOMAIN body \ EnhancedFields : stored[k] = body[k]
                /\ stored.id = id
                /\ GetTime(stored.timestamp) \in id[2]..now'
                /\ stored.aiInsights = generateAIInsights(body)
                /\ DOMAIN stored.projections = 1..12
                /\ req'[r].response.report = stored
                /\ req'[r].response.reportId = id
                /\ UsageOrDefault(kv').reports = UsageOrDefault(kv).reports + 1
                /\ UsageOrDefault(kv').scenarios = UsageOrDefault(kv).scenarios
        /\ (/\ req[r].kind = "POST /generate-report"
            /\ req[r].pc \in {"set_record", "get_usage"})
                => UsageOrDefault(kv') = UsageOrDefault(kv)
      ]_vars

\* C11 witness: after a successful POST /scenario a POST /generate-report
\* has succeeded; its record is in the store and in its response, and the
\* counters are 1 and 1.
C11_ReportAfterScenario ==
    \E r \in Succeeded("POST /generate-report") :
        /\ Succeeded("POST /scenario") # {}
        /\ KvGet(kv, req[r].id) = req[r].response.report
        /\ req[r].response.report.metrics = req[r].body.metrics
        /\ UsageOrDefault(kv).reports = 1
        /\ UsageOrDefault(kv).scenarios = 1

(***************************************************************************)
(* The server under any interleaving of requests, with one well-formed     *)
(* body per endpoint besides the malformed ones; the clock moves on only   *)
(* while a POST handler runs.                                              *)
(***************************************************************************)
NextFailures ==
    \E r \in Requests :
        \/ Arrives(r) /\ GetUsage(r)
        \/ Arrives(r) /\ GetUsageCatch(r)
        \/ Arrives(r)
            /\ BeginPostUsage(r, [scenarios |-> MaxCount, reports |-> 0,
                                  note |-> "kept by the client"])
        \/ PostUsageSet(r)
        \/ PostUsageCatch(r)
        \/ \E t \in 0..MaxClock :
                /\ Arrives(r)
                /\ BeginPostScenario(r, [employees |-> 5, productPrice |-> 150],
                                     t)
        \/ PostScenarioSet(r)
        \/ PostScenarioGetUsage(r)
        \/ PostScenarioSetUsage(r)
        \/ PostScenarioCatch(r)
        \/ \E reversed \in BOOLEAN, rotation \in 0..MaxRequests :
                Arrives(r) /\ GetScenarios(r, reversed, rotation)
        \/ Arrives(r) /\ GetScenariosCatch(r)
        \/ \E body \in ReportBodies, t \in 0..MaxClock :
                Arrives(r) /\ BeginGenerateReport(r, body, t)
        \/ GenerateReportSet(r)
        \/ GenerateReportGetUsage(r)
        \/ GenerateReportSetUsage(r)
        \/ GenerateReportCatch(r)
        \/ \E kind \in PostKinds : Arrives(r) /\ RequestJsonThrows(r, kind)

SpecFailures == Init /\ [][NextFailures]_vars

(***************************************************************************)
(* Claims about the handlers' answers, under SpecFailures.                 *)
(***************************************************************************)
\* the body is the endpoint's fallback: the zero counters, the empty list,
\* or an object with the one field error
IsFallback(kind, response) ==
    CASE kind = "GET /usage" -> response = [scenarios |-> 0, reports |-> 0]
      [] kind = "GET /scenarios" -> response = [scenarios |-> <<>>]
      [] OTHER -> DOMAIN response = {"error"}

\* C12: a handler in which a store operation throws, or whose body is not
\* JSON or (POST /generate-report) has no metrics, answers 500 with the
\* endpoint's fallback body; it answers once, and after the answer it does
\* nothing more (the store operation is not tried again); every answer has
\* status 200 or 500.
C12_FailureAnswers500Once ==
    [][/\ \A r \in Requests :
            /\ req'[r].status \in {0, 200, 500}
            /\ (req'[r].status = 0) <=> (req'[r].pc # "done")
            /\ req'[r].status = 500
                    => IsFallback(req'[r].kind, req'[r].response)
            /\ req[r].pc = "done" => req'[r] = req[r]
            /\ (faults' # faults /\ req'[r] # req[r])
                    => req'[r].status = 500 /\ kv' = kv
            /\ (req'[r].kind \in PostKinds /\ req'[r].body = NotJson)
                    => req'[r].status = 500
            /\ (/\ req'[r].kind = "POST /generate-report"
                /\ "metrics" \notin DOMAIN req'[r].body)
                    => req'[r].status = 500
       /\ faults' # faults
            => Cardinality({r \in Requests : req'[r] # req[r]}) = 1
       /\ kv' # kv
            => \E r \in Requests : req[r].pc # "done" /\ req'[r] # req[r]
      ]_vars

\* C12 witness: one POST /scenario was answered 500 because its counter
\* write threw after the snapshot was stored, and a POST /generate-report
\* without metrics was answered 500.
C12_StoreAndBodyFailures ==
    \E r1, r2 \in Requests :
        /\ req[r1].kind = "POST /scenario" /\ req[r1].status = 500
        /\ req[r1].usageData # NoValue
        /\ KvHas(kv, req[r1].id)
        /\ faults = 1
        /\ req[r2].kind = "POST /generate-report" /\ req[r2].status = 500
        /\ req[r2].body # NotJson
        /\ "metrics" \notin DOMAIN req[r2].body

\* C13 as claimed: a successful POST /usage stores the submitted scenarios
\* and reports and answers with a body that echoes them and carries, in a
\* further field, the lastUpdated timestamp it wrote to the store.
C13_EchoWithTimestamp ==
    [][\A r \in Requests :
        Succeeds(r, "POST /usage") =>
            LET body == req'[r].body
                stored == KvGet(kv', UsageKey)
                response == req'[r].response
            IN  /\ stored.scenarios = body.scenarios
                /\ stored.reports = body.reports
                /\ response.scenarios = body.scenarios
                /\ response.reports = body.reports
                /\ \E f \in DOMAIN response \ {"success", "scenarios", "reports"} :
                        response[f] = stored.lastUpdated
      ]_vars

\* C13 amended: a successful POST /usage stores exactly the submitted
\* scenarios and reports together with lastUpdated, a server timestamp, and
\* answers with success and the submitted scenarios and reports; the
\* timestamp is stored, the answer does not carry it.
C13_EchoWithoutTimestamp ==
    [][\A r \in Requests :
        Succeeds(r, "POST /usage") =>
            LET body == req'[r].body
                stored == KvGet(kv', UsageKey)
                response == req'[r].response
            IN  /\ DOMAIN stored = {"scenarios", "reports", "lastUpdated"}
                /\ stored.scenarios = body.scenarios
                /\ stored.reports = body.reports
                /\ stored.lastUpdated[1] = "ISO-8601"
                /\ GetTime(stored.lastUpdated) \in 0..now'
                /\ response = [success |-> TRUE, scenarios |-> body.scenarios,
                               reports |-> body.reports]
      ]_vars

\* C13 witness: a POST /usage has succeeded after a POST /scenario had
\* counted 1: the store holds the submitted counters and lastUpdated, not
\* the body's other field, and the answer has no timestamp.
C13_UsagePosted ==
    \E r \in Succeeded("POST /usage") :
        /\ Succeeded("POST /scenario") # {}
        /\ "note" \in DOMAIN req[r].body
        /\ DOMAIN KvGet(kv, UsageKey) = {"scenarios", "reports", "lastUpdated"}
        /\ KvGet(kv, UsageKey).scenarios = MaxCount
        /\ DOMAIN req[r].response = {"success", "scenarios", "reports"}
        /\ req[r].response.scenarios = MaxCount

\* the two endpoints that create a record and count it
CreatingKinds == {"POST /scenario", "POST /generate-report"}

AdviceValues ==
    [setEmployees |-> {1, 50},
     setMarketingBudget |-> {0},
     setProductPrice |-> {800, 1000},
     setCurrentCash |-> {1050000, 2100000, 10000000}]

\* data.metrics with the figures of the client's current render
DisplayedMetrics ==
    Metrics(totalMonthlyBurn, monthlyRevenue, runwayMonths, employees,
            productPrice, currentCash)

NextAdvice ==
    \/ \E setter \in DOMAIN AdviceValues :
            \E value \in AdviceValues[setter] :
                /\ scenariosAnalyzed < MaxAnalyzed
                /\ handleSliderChange(setter, value)
    \/ handleUpdateMarketData
    \/ /\ isUpdatingData
       /\ marketClosure.scenariosAnalyzed < MaxAnalyzed
       /\ MarketDataUpdated(100, 20000)
    \/ \E r \in Requests :
        \/ /\ NoneYet /\ Arrives(r)
           /\ BeginGenerateReport(r, [metrics |-> DisplayedMetrics], now)
        \/ GenerateReportSet(r)
        \/ GenerateReportGetUsage(r)
        \/ GenerateReportSetUsage(r)

SpecAdvice == Init /\ [][NextAdvice]_vars

\* the types of the entries of an advisory list
Types(list) == {list[i].type : i \in DOMAIN list}

\* the reports generated from the figures the client displays now
OfDisplayed == {r \in Projected : req[r].body.metrics = DisplayedMetrics}

StoredLocally(scenarios, reports) ==
    SetItem(SetItem(EmptyStorage, "cfh-scenarios", NumberToString(scenarios)),
            "cfh-reports", NumberToString(reports))

InitFallback ==
    /\ InitServer
    /\ InitParameters
    /\ scenariosAnalyzed = 0
    /\ reportsGenerated = 0
    /\ isUpdatingData = FALSE
    /\ lastDataUpdate = NoDate
    /\ isGeneratingReport = FALSE
    /\ marketClosure = NoValue
    /\ reportClosure = NoValue
    /\ loading = TRUE
    /\ saves = {}
    /\ localStorage \in {EmptyStorage, StoredLocally(MaxCount, 1)}

\* the fetch with this body is at the server, not yet answered to the client
Sent(kind, body) ==
    \E q \in Requests :
        req[q].kind = kind /\ req[q].body = body /\ req[q].pc # "closed"

\* the response of request r reaches the client
Close(r) == req' = [req EXCEPT ![r].pc = "closed"]

\* the fetch of saveUsageData resolves with the answer of request r,
\* whatever its status
SaveAnswered(r) ==
    /\ At(r, "POST /usage", "done")
    /\ req[r].body \in saves
    /\ saves' = saves \ {req[r].body}
    /\ Close(r)
    /\ UNCHANGED <<kv, now, faults>>
    /\ UNCHANGED <<scenariosAnalyzed, reportsGenerated, loading, localStorage>>
    /\ UNCHANGED <<paramVars, asyncVars>>

\* the fetch of loadUsageData resolves with the answer of request r
LoadAnswered(r) ==
    /\ At(r, "GET /usage", "done")
    /\ loading
    /\ loading' = FALSE
    /\ Close(r)
    /\ IF req[r].status = 200
       THEN /\ scenariosAnalyzed' = req[r].response.scenarios
            /\ reportsGenerated' = req[r].response.reports
       ELSE UNCHANGED <<scenariosAnalyzed, reportsGenerated>>
    /\ UNCHANGED <<kv, now, faults>>
    /\ UNCHANGED <<saves, localStorage, paramVars, asyncVars>>

NextFallback ==
    \/ /\ scenariosAnalyzed < MaxAnalyzed /\ CanSend
       /\ handleSliderChange("setEmployees", 50)
    \/ \E r \in Requests :
        \/ /\ loading /\ ~Sent("GET /usage", NoValue)
           /\ Arrives(r) /\ GetUsage(r)
        \/ /\ loading /\ ~Sent("GET /usage", NoValue)
           /\ Arrives(r) /\ GetUsageCatch(r)
        \/ LoadAnswered(r)
        \/ \E body \in saves :
                /\ ~Sent("POST /usage", body)
                /\ Arrives(r) /\ BeginPostUsage(r, body)
        \/ PostUsageSet(r)
        \/ PostUsageCatch(r)
        \/ SaveAnswered(r)
    \/ ~Sent("GET /usage", NoValue) /\ LoadUsageDataThrows
    \/ \E body \in saves :
            ~Sent("POST /usage", body) /\ SaveUsageDataThrows(body)

SpecFallback == InitFallback /\ [][NextFallback]_vars

\* the response of request r reaches the client in this step
Closes(r) == req[r].pc = "done" /\ req'[r].pc = "closed"

\* the fetch of a saveUsageData ends in this step, and not with a 200
SaveFails(body) ==
    /\ body \in saves /\ body \notin saves'
    /\ ~\E r \in Requests : Closes(r) /\ req[r].status = 200

\* the fetch of loadUsageData ends in this step, and not with a 200
LoadFails ==
    /\ loading /\ ~loading'
    /\ ~\E r \in Requests : Closes(r) /\ req[r].status = 200

\* C15: when a usage request of the client fails, by a fetch that throws
\* or by an HTTP 500 answer, the client sends no other request for it; a
\* failed save leaves in localStorage the two counter values it was asked
\* to save, and a failed load sets the displayed counters to the locally
\* stored values when there are any.
C15_FallbackOnEveryFailure ==
    [][/\ \A body \in saves :
            SaveFails(body) =>
                /\ saves' = saves \ {body}
                /\ "cfh-scenarios" \in DOMAIN localStorage'
                /\ "cfh-reports" \in DOMAIN localStorage'
                /\ ParseInt(localStorage'["cfh-scenarios"]) = body.scenarios
                /\ ParseInt(localStorage'["cfh-reports"]) = body.reports
       /\ LoadFails =>
            /\ saves' = saves
            /\ "cfh-scenarios" \in DOMAIN localStorage
                    => scenariosAnalyzed'
                            = ParseInt(localStorage["cfh-scenarios"])
            /\ "cfh-reports" \in DOMAIN localStorage
                    => reportsGenerated' = ParseInt(localStorage["cfh-reports"])
      ]_vars

\* the client reports the business as profitable
ClientProfitable ==
    /\ ReportStatus = "PROFITABLE"
    /\ \E i \in DOMAIN getAIRecommendations :
            getAIRecommendations[i].title = "Profitable Operations"

\* the server's insights for request r hold the positive Cash Flow entry
ServerPositive(r) ==
    \E i \in DOMAIN req[r].record.aiInsights :
        req[r].record.aiInsights[i]
            = [category |-> "Cash Flow", type |-> "positive"]

\* C17: for the same monthlyRevenue and monthlyBurn the client reports the
\* business as profitable exactly when the server's insights hold the
\* positive Cash Flow entry, also when revenue and burn are equal.
C17_SameCashFlowVerdict ==
    \A r \in OfDisplayed : ClientProfitable <=> ServerPositive(r)

(***************************************************************************)
(* The client's three counting handlers: the user moves a slider, updates  *)
(* the market data and generates reports, in any order; the usage fetches  *)
(* stay in flight.                                                         *)
(***************************************************************************)
NextCounters ==
    \/ \E value \in {5, 50} :
            /\ scenariosAnalyzed < MaxAnalyzed
            /\ handleSliderChange("setEmployees", value)
    \/ handleUpdateMarketData
    \/ /\ isUpdatingData
       /\ marketClosure.scenariosAnalyzed < MaxAnalyzed
       /\ MarketDataUpdated(100, 20000)
    \/ handleGenerateReport
    \/ /\ isGeneratingReport
       /\ reportClosure.reportsGenerated < MaxGenerated
       /\ ReportDownloaded

SpecCounters == Init /\ [][NextCounters]_vars

\* C18: every slider change and every completed market data update raises
\* scenariosAnalyzed by exactly 1, every completed report generation raises
\* reportsGenerated by exactly 1, also when sliders were moved while the
\* update or the generation was pending, and no step lowers a counter.
C18_EveryActionCounted ==
    [][/\ (\E value \in {5, 50} : handleSliderChange("setEmployees", value))
            => scenariosAnalyzed' = scenariosAnalyzed + 1
       /\ (isUpdatingData /\ ~isUpdatingData')
            => scenariosAnalyzed' = scenariosAnalyzed + 1
       /\ (isGeneratingReport /\ ~isGeneratingReport')
            => reportsGenerated' = reportsGenerated + 1
       /\ scenariosAnalyzed' >= scenariosAnalyzed
       /\ reportsGenerated' >= reportsGenerated
      ]_vars

====
